---------------------------- MODULE Spec2Model ----------------------------
(***************************************************************************)
(* zoom_summary_to_agenda.py: a Zoom AI meeting summary is read, split     *)
(* into three labelled sections, each section is parsed into records, and  *)
(* the records are rendered into a fixed Markdown block.                   *)
(*                                                                         *)
(* A Python str is a sequence of tokens.  A token is either one character  *)
(* that the code inspects (a blank, a newline, ':', '.', '!', '?') or a     *)
(* run of other characters that the code only copies or compares as a      *)
(* whole (a word such as "x" or "Recap", or a literal of an f-string).     *)
(***************************************************************************)
EXTENDS Naturals, Sequences, FiniteSets, TLC

VARIABLES
    pc,            \* position of main(): load, split, parse, build, write, exit
    args,          \* argparse.Namespace returned by parse_args
    input_file,    \* what is at args.input: a text, or why it cannot be read
    source_text,   \* main: source_text
    lines,         \* parse_summary: lines
    idx,           \* split_sections: position of the for loop in lines
    sections,      \* split_sections: sections
    current_key,   \* split_sections: current_key
    parsed,        \* main: parsed (ParsedSummary)
    markdown,      \* main: markdown
    out_file,      \* what has been written to args.output
    std_out,       \* what has been written to sys.stdout
    std_err,       \* what the interpreter printed on exit
    exit_code,     \* the process's exit status
    fn_in,         \* a parser called on its own: its argument
    fn_out,        \* ... its result
    fn_again       \* ... parse_quick_recap applied to its own result

vars == <<pc, args, input_file, source_text, lines, idx, sections, current_key,
          parsed, markdown, out_file, std_out, std_err, exit_code,
          fn_in, fn_out, fn_again>>

mainVars == <<pc, args, input_file, source_text, lines, idx, sections,
              current_key, parsed, markdown, out_file, std_out, std_err,
              exit_code>>

fnVars == <<fn_in, fn_out, fn_again>>

----------------------------------------------------------------------------
(* Bounds of the model. *)

MaxLines == 4        \* lines of an input file
MaxRecapText == 6    \* tokens (newlines included) of a recap text
MaxActionText == 6   \* tokens (newlines included) of a next-steps text
MaxTopicLines == 5   \* lines of a summary bucket

----------------------------------------------------------------------------
(* Strings. *)

NL == "\n"

None == <<>>
Some(v) == <<v>>

\* Python truth value of an optional str: None and "" are false.
Truthy(opt) == opt # None /\ opt[1] # <<>>

IsSpace(c) == c \in {" ", "\t", NL}

IsTerminal(c) == c \in {".", "!", "?"}

RECURSIVE LStrip(_)
LStrip(s) == IF s # <<>> /\ IsSpace(Head(s)) THEN LStrip(Tail(s)) ELSE s

RECURSIVE RStrip(_)
RStrip(s) ==
    IF s # <<>> /\ IsSpace(s[Len(s)]) THEN RStrip(SubSeq(s, 1, Len(s) - 1)) ELSE s

Strip(s) == RStrip(LStrip(s))

LowerChar(c) ==
    CASE c = "Recap" -> "recap"
      [] c = "RECAP" -> "recap"
      [] c = "Quick" -> "quick"
      [] c = "Next" -> "next"
      [] c = "Steps" -> "steps"
      [] c = "ACTIONS" -> "actions"
      [] c = "Actions" -> "actions"
      [] c = "Summary" -> "summary"
      [] c = "SUMMARY" -> "summary"
      [] c = "X" -> "x"
      [] OTHER -> c

Lower(s) == [i \in DOMAIN s |-> LowerChar(s[i])]

\* sep.join(items)
RECURSIVE Join(_, _)
Join(items, sep) ==
    IF items = <<>> THEN <<>>
    ELSE IF Len(items) = 1 THEN items[1]
    ELSE items[1] \o sep \o Join(Tail(items), sep)

\* Least index i >= from with s[i] = c, or 0.
RECURSIVE IndexOf(_, _, _)
IndexOf(s, c, from) ==
    IF from > Len(s) THEN 0
    ELSE IF s[from] = c THEN from
    ELSE IndexOf(s, c, from + 1)

\* text.splitlines()
RECURSIVE splitlines(_)
splitlines(text) ==
    IF text = <<>> THEN <<>>
    ELSE LET k == IndexOf(text, NL, 1)
         IN  IF k = 0 THEN <<text>>
             ELSE <<SubSeq(text, 1, k - 1)>>
                  \o splitlines(SubSeq(text, k + 1, Len(text)))

\* All sequences over S of length at most n.
SeqsUpTo(S, n) == UNION {[1..k -> S] : k \in 0..n}

----------------------------------------------------------------------------
(* Section splitter. *)

QUICK_RECAP == "quick recap"
NEXT_STEPS == "next steps"
SUMMARY == "summary"

SECTION_NAMES ==
       (<<"quick", " ", "recap">> :> QUICK_RECAP)
    @@ (<<"quick", " ", "recap", ":">> :> QUICK_RECAP)
    @@ (<<"recap">> :> QUICK_RECAP)
    @@ (<<"recap", ":">> :> QUICK_RECAP)
    @@ (<<"next", " ", "steps">> :> NEXT_STEPS)
    @@ (<<"next", " ", "steps", ":">> :> NEXT_STEPS)
    @@ (<<"actions">> :> NEXT_STEPS)
    @@ (<<"actions", ":">> :> NEXT_STEPS)
    @@ (<<"summary">> :> SUMMARY)
    @@ (<<"summary", ":">> :> SUMMARY)

normalise_line(line) == Strip(line)

EmptySections == [k \in {QUICK_RECAP, NEXT_STEPS, SUMMARY} |-> <<>>]

\* SECTION_NAMES.get(line): the lookup without lower().
section_key_case_sensitive(line) ==
    IF line \in DOMAIN SECTION_NAMES THEN Some(SECTION_NAMES[line]) ELSE None

\* SECTION_NAMES.get(line.lower()): the key as an optional value.
section_key(line) ==
    IF Lower(line) \in DOMAIN SECTION_NAMES
    THEN Some(SECTION_NAMES[Lower(line)])
    ELSE None

\* The iteration with current_key starting as "summary" instead of None:
\* lines before the first header are stored.
split_step_keeps_preamble(st, raw_line) ==
    LET line == normalise_line(raw_line)
        key == section_key(line)
    IN  IF line = <<>> THEN st
        ELSE IF key # None THEN [st EXCEPT !.current_key = key]
        ELSE IF st.current_key = None
             THEN [st EXCEPT !.sections[SUMMARY] = Append(@, line)]
        ELSE [st EXCEPT !.sections[st.current_key[1]] = Append(@, line)]

\* One iteration of the for loop of split_sections on raw_line, from the
\* loop state st = [sections, current_key].
split_step(st, raw_line) ==
    LET line == normalise_line(raw_line)
        key == section_key(line)
    IN  IF line = <<>> THEN st
        ELSE IF key # None THEN [st EXCEPT !.current_key = key]
        ELSE IF st.current_key = None THEN st
        ELSE [st EXCEPT !.sections[st.current_key[1]] = Append(@, line)]

----------------------------------------------------------------------------
(* Recap parser. *)

\* Last index of the run of whitespace that starts at i.
RECURSIVE SpaceRunEnd(_, _)
SpaceRunEnd(s, i) ==
    IF i < Len(s) /\ IsSpace(s[i + 1]) THEN SpaceRunEnd(s, i + 1) ELSE i

\* SENTENCE_END_RE.split(s), scanning from i with the current piece starting
\* at start: a match is a maximal run of whitespace whose first character
\* follows '.', '!' or '?'.
RECURSIVE SplitFrom(_, _, _)
SplitFrom(s, i, start) ==
    IF i > Len(s) THEN <<SubSeq(s, start, Len(s))>>
    ELSE IF i > 1 /\ IsTerminal(s[i - 1]) /\ IsSpace(s[i])
         THEN LET j == SpaceRunEnd(s, i)
              IN  <<SubSeq(s, start, i - 1)>> \o SplitFrom(s, j + 1, j + 1)
         ELSE SplitFrom(s, i + 1, start)

\* SENTENCE_END_RE.split(s, maxsplit=1): only the first match splits.
SENTENCE_END_RE_split_once(s) ==
    LET all == SplitFrom(s, 1, 1)
    IN  IF Len(all) = 1 THEN all
        ELSE <<all[1],
               SubSeq(s, SpaceRunEnd(s, Len(all[1]) + 1) + 1, Len(s))>>

SENTENCE_END_RE_split(s) == SplitFrom(s, 1, 1)

\* [part.strip() for part in parts if part.strip()]
RECURSIVE StripDropEmpty(_)
StripDropEmpty(parts) ==
    IF parts = <<>> THEN <<>>
    ELSE (IF Strip(Head(parts)) # <<>> THEN <<Strip(Head(parts))>> ELSE <<>>)
         \o StripDropEmpty(Tail(parts))

sentences_from_paragraph(paragraph) ==
    LET parts == StripDropEmpty(SENTENCE_END_RE_split(paragraph))
    IN  IF parts # <<>> THEN parts ELSE <<Strip(paragraph)>>

RECURSIVE parse_quick_recap(_)
parse_quick_recap(ls) ==
    IF ls = <<>> THEN <<>>
    ELSE sentences_from_paragraph(Head(ls)) \o parse_quick_recap(Tail(ls))

----------------------------------------------------------------------------
(* Action-item parser. *)

TBD == <<"TBD">>

\* Greatest index i with s[i] = c, or 0.
LastIndexOf(s, c) ==
    IF \A i \in DOMAIN s : s[i] # c THEN 0
    ELSE CHOOSE i \in DOMAIN s : s[i] = c /\ \A j \in (i + 1)..Len(s) : s[j] # c

\* line.rsplit(":", 1): the split at the last colon.
split_colon_last(line) ==
    LET k == LastIndexOf(line, ":")
    IN  <<SubSeq(line, 1, k - 1), SubSeq(line, k + 1, Len(line))>>

\* line.split(":", 1) when ":" in line, as <<owner, action>> before strip.
split_colon(line) ==
    LET k == IndexOf(line, ":", 1)
    IN  <<SubSeq(line, 1, k - 1), SubSeq(line, k + 1, Len(line))>>

\* The body of the for loop of parse_action_items: the records one line adds.
action_of_line(line) ==
    LET hasColon == IndexOf(line, ":", 1) # 0
        owner == IF hasColon THEN Strip(split_colon(line)[1]) ELSE <<>>
        action == IF hasColon THEN Strip(split_colon(line)[2]) ELSE Strip(line)
    IN  IF action = <<>> THEN <<>>
        ELSE << <<IF owner # <<>> THEN owner ELSE TBD, action>> >>

RECURSIVE parse_action_items(_)
parse_action_items(ls) ==
    IF ls = <<>> THEN <<>>
    ELSE action_of_line(Head(ls)) \o parse_action_items(Tail(ls))

----------------------------------------------------------------------------
(* Summary-topic parser. *)

\* re.search(r"[.!?]$", line): '$' matches at the end and before a final newline.
ends_with_terminal(line) ==
    \/ Len(line) >= 1 /\ IsTerminal(line[Len(line)])
    \/ Len(line) >= 2 /\ line[Len(line)] = NL /\ IsTerminal(line[Len(line) - 1])

is_title(line) == ~ends_with_terminal(line)

\* The append under the guard "current_title and current_body".
flush_topic_needs_both(st) ==
    IF Truthy(st.current_title) /\ st.current_body # <<>>
    THEN Append(st.topics,
                <<st.current_title[1], Strip(Join(st.current_body, <<" ">>))>>)
    ELSE st.topics

\* topics.append((current_title or "Summary", " ".join(current_body).strip()))
\* under the guard "current_title or current_body".
flush_topic(st) ==
    IF Truthy(st.current_title) \/ st.current_body # <<>>
    THEN Append(st.topics,
                <<IF Truthy(st.current_title) THEN st.current_title[1]
                                              ELSE <<"Summary">>,
                  Strip(Join(st.current_body, <<" ">>))>>)
    ELSE st.topics

\* One iteration of the for loop of parse_summary_topics.
topic_step(st, line) ==
    IF line = <<>> THEN st
    ELSE IF is_title(line)
         THEN [topics |-> flush_topic(st),
               current_title |-> Some(Strip(line)),
               current_body |-> <<>>]
         ELSE [st EXCEPT !.current_body = Append(@, Strip(line))]

RECURSIVE topic_loop(_, _)
topic_loop(st, ls) ==
    IF ls = <<>> THEN st ELSE topic_loop(topic_step(st, Head(ls)), Tail(ls))

parse_summary_topics(ls) ==
    flush_topic(topic_loop([topics |-> <<>>, current_title |-> None,
                            current_body |-> <<>>], ls))

\* parse_summary after split_sections: the three parsers on their buckets.
parse_sections(secs) ==
    [quick_recap |-> parse_quick_recap(secs[QUICK_RECAP]),
     action_items |-> parse_action_items(secs[NEXT_STEPS]),
     summary_topics |-> parse_summary_topics(secs[SUMMARY])]

----------------------------------------------------------------------------
(* Renderer. *)

AGENDA_FALLBACK == <<"- Updates from the supervisory team">>
NOTES_FALLBACK == <<"- Discussion notes pending.">>
BODY_FALLBACK == <<"Discussion captured in Zoom summary.">>
TABLE_HEAD == << <<"| Action | Owner | Due | Status |">>,
                 <<"|--------|-------|-----|--------|">> >>
TABLE_FALLBACK == <<"| No action items recorded | - | - | - |">>
FOLLOW_UP_DEFAULT == <<"- Note any reminders or checks before the next meeting.">>

\* x, with no default
NoDefault(x, default) == x

\* x or default, for a str x
OrDefault(x, default) == IF x # <<>> THEN x ELSE default

RECURSIVE agenda_bullets(_)
agenda_bullets(topics) ==
    IF topics = <<>> THEN <<>>
    ELSE << <<"- ">> \o Head(topics)[1] >> \o agenda_bullets(Tail(topics))

format_agenda(topics) ==
    IF topics # <<>> THEN agenda_bullets(topics) ELSE <<AGENDA_FALLBACK>>

\* The recap bullet with the sentences joined by blanks.
recap_note_blank_joined(quick_recap) ==
    IF quick_recap = <<>> THEN <<>>
    ELSE << <<"- Quick recap: ">> \o Join(quick_recap, <<" ">>) >>

recap_note(quick_recap) ==
    IF quick_recap = <<>> THEN <<>>
    ELSE IF Len(quick_recap) = 1
         THEN << <<"- Quick recap: ">> \o quick_recap[1] >>
         ELSE << <<"- Quick recap: ">> \o Join(quick_recap, <<"; ">>) >>

RECURSIVE topic_notes(_)
topic_notes(topics) ==
    IF topics = <<>> THEN <<>>
    ELSE << <<"- ">> \o Head(topics)[1] \o <<": ">>
            \o OrDefault(Head(topics)[2], BODY_FALLBACK) >>
         \o topic_notes(Tail(topics))

format_discussion_notes(quick_recap, topics) ==
    LET notes == recap_note(quick_recap) \o topic_notes(topics)
    IN  IF notes = <<>> THEN <<NOTES_FALLBACK>> ELSE notes

\* The rows with the owner in the Action column: f"| {owner} | {action} |  | Open |"
RECURSIVE action_rows_owner_first(_)
action_rows_owner_first(items) ==
    IF items = <<>> THEN <<>>
    ELSE << <<"| ">> \o Head(items)[1] \o <<" | ">> \o Head(items)[2]
            \o <<" |  | Open |">> >>
         \o action_rows_owner_first(Tail(items))

\* for owner, action in items: rows.append(f"| {action} | {owner} |  | Open |")
RECURSIVE action_rows(_)
action_rows(items) ==
    IF items = <<>> THEN <<>>
    ELSE << <<"| ">> \o Head(items)[2] \o <<" | ">> \o Head(items)[1]
            \o <<" |  | Open |">> >>
         \o action_rows(Tail(items))

format_action_table(items) ==
    IF items = <<>> THEN Append(TABLE_HEAD, TABLE_FALLBACK)
    ELSE TABLE_HEAD \o action_rows(items)

\* The separator of the f-string "{time_label} <em dash> {connection_label}":
\* a blank, U+2014, a blank.
EM_DASH_SEP == <<" (U+2014) ">>

\* The line without the test against the sentinel.
time_connection_no_sentinel(a) ==
    LET time_label == OrDefault(a.time, TBD)
        connection_label == OrDefault(a.connection, TBD)
    IN  IF connection_label # <<>>
        THEN time_label \o EM_DASH_SEP \o connection_label
        ELSE time_label

time_connection(a) ==
    LET time_label == OrDefault(a.time, TBD)
        connection_label == OrDefault(a.connection, TBD)
    IN  IF connection_label # <<>> /\ connection_label # TBD
        THEN time_label \o EM_DASH_SEP \o connection_label
        ELSE time_label

build_markdown(p, a) ==
    LET date_label == OrDefault(a.date, <<"YYYY-MM-DD">>)
        attendees == OrDefault(a.attendees, OrDefault(a.student, TBD))
        apologies == OrDefault(a.apologies, <<"None">>)
        follow_up == IF Truthy(a.follow_up) THEN a.follow_up[1]
                                            ELSE FOLLOW_UP_DEFAULT
        parts ==
            << <<"---">>,
               <<"## Meeting ">> \o date_label,
               <<>>,
               <<"- **Date:** ">> \o date_label,
               <<"- **Time / connection:** ">> \o time_connection(a),
               <<"- **Next meeting:** ">> \o OrDefault(a.next_meeting, TBD),
               <<"- **Attendees:** ">> \o attendees,
               <<"- **Apologies:** ">> \o apologies,
               <<>>,
               <<"### Agenda">> >>
            \o format_agenda(p.summary_topics)
            \o << <<>>, <<"### Discussion notes">> >>
            \o format_discussion_notes(p.quick_recap, p.summary_topics)
            \o << <<>>, <<"### Action items">> >>
            \o format_action_table(p.action_items)
            \o << <<>>, <<"### Follow-up">>, follow_up, <<>> >>
    IN  Join(parts, <<NL>>)

----------------------------------------------------------------------------
(* Inputs: command lines and input files. *)

\* parse_args: the Namespace when no optional flag is given.
DefaultArgs ==
    [input |-> <<"summary.txt">>, output |-> None,
     date |-> <<"YYYY-MM-DD">>, time |-> TBD, connection |-> TBD,
     attendees |-> <<>>, apologies |-> <<>>, student |-> <<>>,
     next_meeting |-> TBD, follow_up |-> None]

OutputPath == Some(<<"meeting.md">>)

\* Namespaces of command lines that give some of the flags, some of them
\* with an empty value.
ArgSet ==
    [input : {<<"summary.txt">>},
     output : {None, OutputPath},
     date : {<<"YYYY-MM-DD">>, <<>>, <<"2025-10-27">>},
     time : {TBD, <<>>, <<"14:00 SAST">>},
     connection : {TBD, <<>>, <<"Teams">>},
     attendees : {<<>>, <<"Lead Supervisor, Student">>},
     apologies : {<<>>, <<"Co-supervisor">>},
     student : {<<>>, <<"Student">>},
     next_meeting : {TBD, <<"Propose 2025-11-10">>},
     follow_up : {None, Some(<<"- Check ethics form.">>)}]

\* Lines of an input file: blank, the three kinds of header (with blanks
\* around, in upper case, with a colon), and content.
RawLines ==
    { <<" ">>,
      <<" ", "Recap", ":">>,
      <<"ACTIONS">>,
      <<"summary", " ">>,
      <<"x">>,
      <<"x", ":">>,
      <<"y", ":", " ", "x", ".", " ", "x", "?">> }

\* A longer file: a header that recurs after another section.
LongTexts ==
    { Join(<< <<"y">>, <<"recap">>, <<"x", ".">>, <<"Summary", ":">>, <<"x">>,
              <<"y", ".">>, <<"y">>, <<" ">>, <<"RECAP">>, <<"x", "?">>,
              <<"actions", ":">>, <<"x", ":", "y">> >>, <<NL>>) }

Texts == {Join(ls, <<NL>>) : ls \in SeqsUpTo(RawLines, MaxLines)} \cup LongTexts

SampleTexts ==
    { <<>>,
      Join(<< <<"Quick", " ", "Recap">>, <<"x", ".">>,
              <<"Next", " ", "Steps">>, <<"y", ":", " ", "x">>,
              <<"Summary">>, <<"x">>, <<"x", ".">> >>, <<NL>>) }

\* Why args.input cannot be read: it does not exist; it is a directory or
\* may not be opened; its bytes are not UTF-8.
NOT_FOUND == "FileNotFoundError"
ReadErrors == {NOT_FOUND, "IsADirectoryError", "PermissionError",
               "UnicodeDecodeError"}

InputFiles ==
    [kind : {"text"}, content : Texts, error : {"-"}]

Runs ==
         (InputFiles \X {DefaultArgs})
    \cup ([kind : {"text"}, content : SampleTexts, error : {"-"}] \X ArgSet)
    \cup ([kind : {"unreadable"}, content : {<<>>}, error : ReadErrors]
          \X {DefaultArgs, [DefaultArgs EXCEPT !.output = OutputPath]})

----------------------------------------------------------------------------
(* main *)

InitFn == fn_in = <<>> /\ fn_out = <<>> /\ fn_again = <<>>

Init ==
    /\ \E r \in Runs : input_file = r[1] /\ args = r[2]
    /\ pc = "load_text"
    /\ source_text = None
    /\ lines = <<>>
    /\ idx = 1
    /\ sections = EmptySections
    /\ current_key = None
    /\ parsed = None
    /\ markdown = None
    /\ out_file = None
    /\ std_out = <<>>
    /\ std_err = None
    /\ exit_code = None
    /\ InitFn

\* What the interpreter does with SystemExit(message): the message goes to
\* stderr and the status is 1.
ERROR_STATUS == 1
OK_STATUS == 0

SystemExit(message) ==
    /\ std_err' = Some(message)
    /\ exit_code' = Some(ERROR_STATUS)
    /\ pc' = "exit"

\* What the interpreter does with an exception nothing catches: a traceback
\* goes to stderr and the status is 1.
Uncaught(exception) ==
    /\ std_err' = Some(<<"Traceback (most recent call last):", exception>>)
    /\ exit_code' = Some(ERROR_STATUS)
    /\ pc' = "exit"

\* load_text is about to read a file that can be read
ReadSucceeds ==
    /\ pc = "load_text"
    /\ input_file.kind = "text"

\* load_text: read_text succeeds
LoadText ==
    /\ ReadSucceeds
    /\ source_text' = Some(input_file.content)
    /\ pc' = "parse_summary"
    /\ UNCHANGED <<args, input_file, lines, idx, sections, current_key, parsed,
                   markdown, out_file, std_out, std_err, exit_code, fnVars>>

\* load_text is about to read a path where there is no file
ReadFindsNothing ==
    /\ pc = "load_text"
    /\ input_file.kind = "unreadable"
    /\ input_file.error = NOT_FOUND

\* load_text: read_text raises FileNotFoundError
LoadTextNotFound ==
    /\ ReadFindsNothing
    /\ SystemExit(<<"error: input file '">> \o args.input \o <<"' not found">>)
    /\ UNCHANGED <<args, input_file, source_text, lines, idx, sections,
                   current_key, parsed, markdown, out_file, std_out, fnVars>>

\* load_text is about to read a file that is there and cannot be read
ReadRaisesOther ==
    /\ pc = "load_text"
    /\ input_file.kind = "unreadable"
    /\ input_file.error # NOT_FOUND

\* load_text: read_text raises an exception that is not FileNotFoundError
LoadTextRaises ==
    /\ ReadRaisesOther
    /\ Uncaught(input_file.error)
    /\ UNCHANGED <<args, input_file, source_text, lines, idx, sections,
                   current_key, parsed, markdown, out_file, std_out, fnVars>>

\* main is about to call parse_summary
AtParseSummary ==
    /\ pc = "parse_summary"

\* parse_summary: lines = text.splitlines(); split_sections up to its loop
BeginSplit ==
    /\ AtParseSummary
    /\ lines' = splitlines(source_text[1])
    /\ idx' = 1
    /\ sections' = EmptySections
    /\ current_key' = None
    /\ pc' = "split_sections"
    /\ UNCHANGED <<args, input_file, source_text, parsed, markdown, out_file,
                   std_out, std_err, exit_code, fnVars>>

\* the for loop of split_sections has a line left
InSplitLoop ==
    /\ pc = "split_sections"
    /\ idx <= Len(lines)

\* split_sections: one iteration of the for loop
SplitStep ==
    /\ InSplitLoop
    /\ LET st == split_step([sections |-> sections, current_key |-> current_key],
                            lines[idx])
       IN  sections' = st.sections /\ current_key' = st.current_key
    /\ idx' = idx + 1
    /\ UNCHANGED <<pc, args, input_file, source_text, lines, parsed, markdown,
                   out_file, std_out, std_err, exit_code, fnVars>>

\* the for loop of split_sections has no line left
SplitLoopOver ==
    /\ pc = "split_sections"
    /\ idx > Len(lines)

\* parse_summary: the loop is over; the three parsers build the ParsedSummary
ParseSections ==
    /\ SplitLoopOver
    /\ parsed' = Some(parse_sections(sections))
    /\ pc' = "build_markdown"
    /\ UNCHANGED <<args, input_file, source_text, lines, idx, sections,
                   current_key, markdown, out_file, std_out, std_err, exit_code,
                   fnVars>>

\* main is about to call build_markdown
AtBuildMarkdown ==
    /\ pc = "build_markdown"

\* main: markdown = build_markdown(parsed, args)
BuildMarkdown ==
    /\ AtBuildMarkdown
    /\ markdown' = Some(build_markdown(parsed[1], args))
    /\ pc' = "write"
    /\ UNCHANGED <<args, input_file, source_text, lines, idx, sections,
                   current_key, parsed, out_file, std_out, std_err, exit_code,
                   fnVars>>

\* main is about to write args.output
AtWriteFile ==
    /\ pc = "write"
    /\ args.output # None

\* main: args.output.write_text(markdown) succeeds; return 0
WriteOutput ==
    /\ AtWriteFile
    /\ out_file' = Some(markdown[1])
    /\ exit_code' = Some(OK_STATUS)
    /\ pc' = "exit"
    /\ UNCHANGED <<args, input_file, source_text, lines, idx, sections,
                   current_key, parsed, markdown, std_out, std_err, fnVars>>

\* main: args.output.write_text(markdown) raises OSError
WriteOutputFails ==
    /\ AtWriteFile
    /\ SystemExit(<<"error: failed to write output file: ", "OSError">>)
    /\ UNCHANGED <<args, input_file, source_text, lines, idx, sections,
                   current_key, parsed, markdown, out_file, std_out, fnVars>>

\* main is about to write sys.stdout
AtWriteStdout ==
    /\ pc = "write"
    /\ args.output = None

\* main: sys.stdout.write(markdown); return 0
WriteStdout ==
    /\ AtWriteStdout
    /\ std_out' = std_out \o markdown[1]
    /\ exit_code' = Some(OK_STATUS)
    /\ pc' = "exit"
    /\ UNCHANGED <<args, input_file, source_text, lines, idx, sections,
                   current_key, parsed, markdown, out_file, std_err, fnVars>>

Next ==
    \/ LoadText
    \/ LoadTextNotFound
    \/ LoadTextRaises
    \/ BeginSplit
    \/ SplitStep
    \/ ParseSections
    \/ BuildMarkdown
    \/ WriteOutput
    \/ WriteOutputFails
    \/ WriteStdout

Spec == Init /\ [][Next]_vars

----------------------------------------------------------------------------
(* The parsers on their own: each is called on the lines of a text. *)

InitMainIdle ==
    /\ input_file = [kind |-> "text", content |-> <<>>, error |-> "-"]
    /\ args = DefaultArgs
    /\ source_text = None
    /\ lines = <<>>
    /\ idx = 1
    /\ sections = EmptySections
    /\ current_key = None
    /\ parsed = None
    /\ markdown = None
    /\ out_file = None
    /\ std_out = <<>>
    /\ std_err = None
    /\ exit_code = None

\* Recap texts: words, sentence ends, blanks, line ends.
RecapTexts == SeqsUpTo({"x", ".", "?", " ", NL}, MaxRecapText)

InitRecap ==
    /\ InitMainIdle
    /\ pc = "parse_quick_recap"
    /\ \E t \in RecapTexts : fn_in = splitlines(t)
    /\ fn_out = None
    /\ fn_again = None

\* sentences = parse_quick_recap(lines)
CallParseQuickRecap ==
    /\ pc = "parse_quick_recap"
    /\ fn_out' = Some(parse_quick_recap(fn_in))
    /\ pc' = "parse_quick_recap_again"
    /\ UNCHANGED <<args, input_file, source_text, lines, idx, sections,
                   current_key, parsed, markdown, out_file, std_out, std_err,
                   exit_code, fn_in, fn_again>>

\* parse_quick_recap(sentences): the sentences split again
CallParseQuickRecapAgain ==
    /\ pc = "parse_quick_recap_again"
    /\ fn_again' = Some(parse_quick_recap(fn_out[1]))
    /\ pc' = "returned"
    /\ UNCHANGED <<args, input_file, source_text, lines, idx, sections,
                   current_key, parsed, markdown, out_file, std_out, std_err,
                   exit_code, fn_in, fn_out>>

NextRecap == CallParseQuickRecap \/ CallParseQuickRecapAgain

SpecRecap == InitRecap /\ [][NextRecap]_vars

\* Next-steps texts: words, colons, blanks, line ends.
ActionTexts == SeqsUpTo({"x", ":", " ", NL}, MaxActionText)

InitActions ==
    /\ InitMainIdle
    /\ pc = "parse_action_items"
    /\ \E t \in ActionTexts : fn_in = splitlines(t)
    /\ fn_out = None
    /\ fn_again = None

\* results = parse_action_items(lines)
CallParseActionItems ==
    /\ pc = "parse_action_items"
    /\ fn_out' = Some(parse_action_items(fn_in))
    /\ pc' = "returned"
    /\ UNCHANGED <<args, input_file, source_text, lines, idx, sections,
                   current_key, parsed, markdown, out_file, std_out, std_err,
                   exit_code, fn_in, fn_again>>

NextActions == CallParseActionItems

SpecActions == InitActions /\ [][NextActions]_vars

\* Lines of a summary bucket, as split_sections stores them (stripped, not
\* blank): titles, bodies ending in each terminal mark, a terminal mark
\* that does not end the line.
TopicLines ==
    { <<"x">>, <<"y">>, <<"x", ".">>, <<"y", "!">>, <<"x", " ", "y", "?">>,
      <<".", " ", "x">> }

InitTopics ==
    /\ InitMainIdle
    /\ pc = "parse_summary_topics"
    /\ fn_in \in SeqsUpTo(TopicLines, MaxTopicLines)
    /\ fn_out = None
    /\ fn_again = None

\* topics = parse_summary_topics(lines)
CallParseSummaryTopics ==
    /\ pc = "parse_summary_topics"
    /\ fn_out' = Some(parse_summary_topics(fn_in))
    /\ pc' = "returned"
    /\ UNCHANGED <<args, input_file, source_text, lines, idx, sections,
                   current_key, parsed, markdown, out_file, std_out, std_err,
                   exit_code, fn_in, fn_again>>

NextTopics == CallParseSummaryTopics

SpecTopics == InitTopics /\ [][NextTopics]_vars

----------------------------------------------------------------------------
(* What the claims speak of. *)

Scanned == SubSeq(lines, 1, idx - 1)

SplitDone == pc \in {"build_markdown", "write", "exit"} /\ source_text # None

\* The header vocabulary: a keyword, with or without a trailing colon,
\* in any case, with blanks around it.
KeywordKey(w) ==
    CASE w \in {<<"quick", " ", "recap">>, <<"recap">>} -> "quick recap"
      [] w \in {<<"next", " ", "steps">>, <<"actions">>} -> "next steps"
      [] w = <<"summary">> -> "summary"
      [] OTHER -> "none"

HeaderKey(raw) ==
    LET t == Lower(Strip(raw))
    IN  IF t # <<>> /\ t[Len(t)] = ":"
        THEN KeywordKey(SubSeq(t, 1, Len(t) - 1))
        ELSE KeywordKey(t)

IsHeader(raw) == HeaderKey(raw) # "none"

IsBlank(raw) == \A i \in DOMAIN raw : IsSpace(raw[i])

\* Line j of ls is content of bucket k: it is not blank, not a header, and
\* the last header before it maps to k.
ContentOf(ls, j, k) ==
    /\ ~IsBlank(ls[j])
    /\ ~IsHeader(ls[j])
    /\ \E h \in 1..(j - 1) :
          /\ HeaderKey(ls[h]) = k
          /\ \A m \in (h + 1)..(j - 1) : ~IsHeader(ls[m])

RECURSIVE ExpectedBucket(_, _, _)
ExpectedBucket(ls, n, k) ==
    IF n = 0 THEN <<>>
    ELSE ExpectedBucket(ls, n - 1, k)
         \o (IF ContentOf(ls, n, k) THEN <<Strip(ls[n])>> ELSE <<>>)

ExpectedCurrent(ls) ==
    IF \A j \in DOMAIN ls : ~IsHeader(ls[j]) THEN None
    ELSE LET h == CHOOSE h \in DOMAIN ls :
                     IsHeader(ls[h]) /\ \A m \in (h + 1)..Len(ls) : ~IsHeader(ls[m])
         IN  Some(HeaderKey(ls[h]))

\* The lines of block `title` of the rendered document: those after the
\* title line, up to the next empty line.
BlockOf(md, title) ==
    LET ls == splitlines(md)
        h == CHOOSE h \in DOMAIN ls : ls[h] = <<title>>
        e == CHOOSE e \in (h + 1)..(Len(ls) + 1) :
                 /\ e = Len(ls) + 1 \/ ls[e] = <<>>
                 /\ \A m \in (h + 1)..(e - 1) : ls[m] # <<>>
    IN  SubSeq(ls, h + 1, e - 1)

Agenda == BlockOf(markdown[1], "### Agenda")
Notes == BlockOf(markdown[1], "### Discussion notes")
ActionTable == BlockOf(markdown[1], "### Action items")

\* C1: when no line of the input is a header keyword after trimming and
\* lower-casing, split_sections leaves the three buckets empty, and the
\* rendered document has only the fallback bullet in Agenda, only the
\* fallback bullet in Discussion notes, and only the fallback row in the
\* Action items table.
C1_NoHeadersOnlyFallbacks ==
    (SplitDone /\ \A j \in DOMAIN lines : ~IsHeader(lines[j])) =>
        /\ \A k \in DOMAIN sections : sections[k] = <<>>
        /\ markdown # None =>
              LET table == ActionTable
              IN  /\ Agenda = << <<"- Updates from the supervisory team">> >>
                  /\ Notes = << <<"- Discussion notes pending.">> >>
                  /\ SubSeq(table, 3, Len(table))
                       = << <<"| No action items recorded | - | - | - |">> >>

C1_Witness ==
    /\ markdown # None
    /\ Len(lines) >= 2
    /\ \E j \in DOMAIN lines : ~IsBlank(lines[j])
    /\ \A j \in DOMAIN lines : ~IsHeader(lines[j])

\* C8: after split_sections has scanned any prefix of the lines, each bucket
\* holds, in input order, exactly the trimmed lines that are not blank, not
\* headers, and follow a header of that bucket with no other header in
\* between (a recurring header appends); no header line is stored; the
\* current section is that of the last header scanned, so blank lines do
\* not change it; lines before the first header are stored nowhere.
C8_BucketsOfPrefix ==
    pc = "split_sections" =>
        /\ \A k \in DOMAIN sections :
              /\ sections[k] = ExpectedBucket(Scanned, Len(Scanned), k)
              /\ \A i \in DOMAIN sections[k] : ~IsHeader(sections[k][i])
        /\ current_key = ExpectedCurrent(Scanned)
        /\ (\A j \in DOMAIN Scanned : ~IsHeader(Scanned[j])) =>
              \A k \in DOMAIN sections : sections[k] = <<>>

\* A header recurs after another section, and its bucket has the content
\* of both occurrences.
C8_Witness ==
    /\ pc = "split_sections"
    /\ idx > Len(lines)
    /\ Len(sections["quick recap"]) >= 2
    /\ Len(sections["summary"]) >= 1
    /\ \E a, b, c \in DOMAIN lines :
          /\ a < b /\ b < c
          /\ HeaderKey(lines[a]) = "quick recap"
          /\ HeaderKey(lines[b]) = "summary"
          /\ HeaderKey(lines[c]) = "quick recap"
    /\ ~IsHeader(lines[1]) /\ ~IsBlank(lines[1])
    /\ \E j \in DOMAIN lines : IsBlank(lines[j])

\* The i-th smallest member of a set of numbers.
Nth(S, i) == CHOOSE j \in S : Cardinality({m \in S : m <= j}) = i

FirstColon(l) ==
    IF \A j \in DOMAIN l : l[j] # ":" THEN 0
    ELSE CHOOSE k \in DOMAIN l : l[k] = ":" /\ \A j \in 1..(k - 1) : l[j] # ":"

OwnerText(l) ==
    IF FirstColon(l) = 0 THEN <<>> ELSE Strip(SubSeq(l, 1, FirstColon(l) - 1))

ActionText(l) ==
    IF FirstColon(l) = 0 THEN Strip(l)
    ELSE Strip(SubSeq(l, FirstColon(l) + 1, Len(l)))

\* The action record the claims expect of a line with action text.
ExpectedItem(l) ==
    <<IF OwnerText(l) = <<>> THEN <<"TBD">> ELSE OwnerText(l), ActionText(l)>>

WithActionText(ls) == {j \in DOMAIN ls : ActionText(ls[j]) # <<>>}

\* C2: parse_action_items splits a line at its first colon only into owner
\* and action text, both trimmed; a line without a colon has no owner and
\* is all action text; a line without action text gives no record; a missing
\* owner becomes TBD.  So there is one record per line with action text, in
\* input order, and no record has an empty owner or an empty action text.
C2_ActionItems ==
    (pc = "returned" /\ fn_out # None) =>
        LET out == fn_out[1]
            kept == WithActionText(fn_in)
        IN  /\ Len(out) = Cardinality(kept)
            /\ \A i \in DOMAIN out :
                  /\ out[i] = ExpectedItem(fn_in[Nth(kept, i)])
                  /\ out[i][1] # <<>>
                  /\ out[i][2] # <<>>

\* A line with two colons keeps the second in its action text, and another
\* line is dropped for want of action text.
C2_Witness ==
    /\ pc = "returned"
    /\ fn_out # None
    /\ Len(fn_in) > Len(fn_out[1])
    /\ \E i \in DOMAIN fn_out[1] :
          /\ fn_out[1][i][1] = <<"x">>
          /\ \E j \in DOMAIN fn_out[1][i][2] : fn_out[1][i][2][j] = ":"

EndsSentence(l) == l # <<>> /\ l[Len(l)] \in {".", "!", "?"}

TitleLines(ls) == {j \in DOMAIN ls : ~EndsSentence(ls[j])}

\* Where the records start: at each title line, and at 0 when the first
\* line is a body line.
RecordStarts(ls) ==
    TitleLines(ls) \cup (IF ls # <<>> /\ EndsSentence(ls[1]) THEN {0} ELSE {})

\* The body lines of the record that starts at s: those up to the next title.
BodyEnd(ls, s) ==
    CHOOSE e \in s..Len(ls) :
        /\ \A m \in (s + 1)..e : EndsSentence(ls[m])
        /\ e = Len(ls) \/ ~EndsSentence(ls[e + 1])

ExpectedTopic(ls, s) ==
    <<IF s = 0 THEN <<"Summary">> ELSE ls[s],
      Join(SubSeq(ls, s + 1, BodyEnd(ls, s)), <<" ">>)>>

\* The lines a sequence of records holds, in order, joined with blanks: each
\* title (but a leading "Summary" that no line gave) and each body.
RECURSIVE RecordText(_, _)
RecordText(topics, synthetic) ==
    IF topics = <<>> THEN <<>>
    ELSE LET t == Head(topics)
             own == (IF synthetic THEN <<>> ELSE <<t[1]>>)
                    \o (IF t[2] = <<>> THEN <<>> ELSE <<t[2]>>)
         IN  own \o RecordText(Tail(topics), FALSE)

\* C3: parse_summary_topics takes a line for a title iff it does not end
\* with '.', '!' or '?'; it gives one record per title line, in order, with
\* the following body lines up to the next title joined by single blanks
\* (empty if none), and one leading record titled "Summary" iff the first
\* line is a body line; every line is in exactly one record, none lost or
\* duplicated.  The example of the specification yields its two records.
C3_SummaryTopics ==
    (pc = "returned" /\ fn_out # None) =>
        LET out == fn_out[1]
            starts == RecordStarts(fn_in)
        IN  /\ Len(out) = Cardinality(starts)
            /\ \A i \in DOMAIN out :
                  out[i] = ExpectedTopic(fn_in, Nth(starts, i))
            /\ Join(RecordText(out, 0 \in starts), <<" ">>) = Join(fn_in, <<" ">>)
            /\ parse_summary_topics(
                   << <<"Budget">>, <<"Discussed", " ", "funding", ".">>,
                      <<"Discussed", " ", "timeline", ".">>, <<"Risks">>,
                      <<"None", " ", "noted", ".">> >>)
               = << << <<"Budget">>,
                       <<"Discussed", " ", "funding", ".", " ",
                         "Discussed", " ", "timeline", ".">> >>,
                    << <<"Risks">>, <<"None", " ", "noted", ".">> >> >>

\* Leading body lines, a title with two body lines, a title with none.
C3_Witness ==
    /\ pc = "returned"
    /\ fn_out # None
    /\ Len(fn_in) = 5
    /\ Len(fn_out[1]) = 3
    /\ fn_out[1][1][1] = <<"Summary">>
    /\ fn_out[1][2][2] = <<"y", "!", " ", "x", " ", "y", "?">>
    /\ fn_out[1][3][2] = <<>>

\* C4: sentence splitting is idempotent: each fragment that
\* sentences_from_paragraph gives splits into itself alone, and
\* parse_quick_recap applied to its own output gives that output.
C4_SplitIdempotent ==
    /\ fn_out # None =>
          \A i \in DOMAIN fn_out[1] :
              sentences_from_paragraph(fn_out[1][i]) = <<fn_out[1][i]>>
    /\ fn_again # None => fn_again = fn_out

\* A line of three sentences has been split, and the sentences split again.
C4_Witness ==
    /\ fn_again # None
    /\ \E i \in DOMAIN fn_in :
          Len(sentences_from_paragraph(fn_in[i])) = 3
    /\ Len(fn_out[1]) >= 3

\* What the run left on stderr is one of the program's own messages.
UserFacingError ==
    /\ std_err # None
    /\ std_err[1][1] \in {"error: input file '",
                          "error: failed to write output file: "}

NothingWritten == out_file = None /\ std_out = <<>>

\* C5: when the input path does not resolve to a readable file (it is missing,
\* or it is there and cannot be read as a file), the run ends at once in an
\* error with a user-facing message and a non-zero exit code, and nothing has
\* been written to the output file or to standard output; a failed write of
\* the output file also ends the run with a user-facing error and a non-zero
\* exit code.
C5_UnreadableInputIsReported ==
    /\ (input_file.kind = "unreadable" /\ pc # "load_text") =>
          /\ pc = "exit"
          /\ UserFacingError
          /\ exit_code # None /\ exit_code[1] # 0
          /\ NothingWritten
    /\ (pc = "exit" /\ markdown # None /\ args.output # None /\ out_file = None) =>
          /\ UserFacingError
          /\ exit_code # None /\ exit_code[1] # 0

\* The value a metadata line shows for a flag: the flag, or its placeholder.
Shown(value, placeholder) == IF value = <<>> THEN <<placeholder>> ELSE value

MetadataLines ==
    << <<"## Meeting ">> \o Shown(args.date, "YYYY-MM-DD"),
       <<>>,
       <<"- **Date:** ">> \o Shown(args.date, "YYYY-MM-DD"),
       SelectSeq(splitlines(markdown[1]),
                 LAMBDA l : l # <<>> /\ l[1] = "- **Time / connection:** ")[1],
       <<"- **Next meeting:** ">> \o Shown(args.next_meeting, "TBD"),
       <<"- **Attendees:** ">>
          \o Shown(args.attendees, IF args.student = <<>> THEN "TBD"
                                   ELSE args.student[1]),
       <<"- **Apologies:** ">> \o Shown(args.apologies, "None") >>

\* Every piece of the document is there, a placeholder standing for each
\* piece the input did not give.
AllPiecesRendered ==
    LET ls == splitlines(markdown[1])
        p == parsed[1]
        agenda == Agenda
        notes == Notes
        table == ActionTable
    IN  /\ ls[1] = <<"---">>
        /\ SubSeq(ls, 2, 8) = MetadataLines
        /\ Len(ls[5]) >= 2
        /\ Len(agenda) >= 1
        /\ p.summary_topics = <<>> =>
              agenda = << <<"- Updates from the supervisory team">> >>
        /\ Len(notes) >= 1
        /\ (p.summary_topics = <<>> /\ p.quick_recap = <<>>) =>
              notes = << <<"- Discussion notes pending.">> >>
        /\ Len(table) >= 3
        /\ p.action_items = <<>> =>
              table[3] = <<"| No action items recorded | - | - | - |">>
        /\ BlockOf(markdown[1], "### Follow-up")
             = << IF args.follow_up = None \/ args.follow_up[1] = <<>>
                  THEN <<"- Note any reminders or checks before the next meeting.">>
                  ELSE args.follow_up[1] >>

\* main has a step to take.
CanStep ==
    \/ ReadSucceeds \/ ReadFindsNothing \/ ReadRaisesOther
    \/ AtParseSummary \/ InSplitLoop \/ SplitLoopOver
    \/ AtBuildMarkdown \/ AtWriteFile \/ AtWriteStdout

\* An upper bound of the steps main has left.
StepsLeft ==
    CASE pc = "load_text" -> Len(input_file.content) + 6
      [] pc = "parse_summary" -> Len(source_text[1]) + 5
      [] pc = "split_sections" -> (Len(lines) + 1 - idx) + 3
      [] pc = "build_markdown" -> 2
      [] pc = "write" -> 1
      [] OTHER -> 0

\* What C6 says of each state of a run on a readable input file.
C6_EachState ==
    input_file.kind = "text" =>
        /\ pc # "exit" => CanStep
        /\ pc # "exit" => std_err = None /\ exit_code = None /\ NothingWritten
        /\ pc = "exit" =>
              \/ /\ exit_code = <<0>>
                 /\ std_err = None
                 /\ AllPiecesRendered
                 /\ IF args.output = None
                    THEN std_out = markdown[1] /\ out_file = None
                    ELSE out_file = markdown /\ std_out = <<>>
              \/ /\ exit_code = <<1>>
                 /\ args.output # None
                 /\ std_err = Some(<<"error: failed to write output file: ",
                                     "OSError">>)
                 /\ NothingWritten

\* C6: for every input file that can be read, whatever its content and the
\* metadata flags, the run load, split, parse, render, write always goes on
\* to its end, raises no error but a failed write of the output file, and
\* when the write succeeds ends with exit code 0 having written exactly one
\* rendered document in which a placeholder stands for every missing piece.
\* (Each step leaves fewer steps to take, and a step can be taken until the
\* run has exited.)
C6_GracefulDegradation ==
    /\ []C6_EachState
    /\ [][input_file.kind = "text" => StepsLeft' < StepsLeft]_vars

\* An empty file has been rendered to standard output with no flag given
\* a value.
C6_Witness ==
    /\ pc = "exit"
    /\ exit_code = <<0>>
    /\ source_text = Some(<<>>)
    /\ args.date = <<>> /\ args.time = <<>> /\ args.connection = <<>>
    /\ args.attendees = <<>> /\ args.student = <<>> /\ args.follow_up = None
    /\ std_out = markdown[1]

\* The text of the "Time / connection" line after its label.
TimeConnection ==
    Tail(SelectSeq(splitlines(markdown[1]),
                   LAMBDA l : l # <<>> /\ l[1] = "- **Time / connection:** ")[1])

\* C7: the Time / connection line is "{time} (em dash) {connection}" iff the
\* connection is not empty and not the sentinel TBD; otherwise (flag omitted,
\* empty, or TBD) it is the time alone, with no em dash; an omitted or empty
\* time shows as TBD.
C7_TimeConnection ==
    markdown # None =>
        LET time == Shown(args.time, "TBD")
            connected == args.connection # <<>> /\ args.connection # <<"TBD">>
            shown == TimeConnection
            dashed == \E i \in DOMAIN shown : shown[i] = " (U+2014) "
        IN  /\ connected => shown = time \o <<" (U+2014) ">> \o args.connection
            /\ ~connected => shown = time
            /\ dashed <=> connected

\* An empty time with a connection, rendered.
C7_Witness ==
    /\ markdown # None
    /\ args.time = <<>>
    /\ args.connection = <<"Teams">>
    /\ TimeConnection = <<"TBD", " (U+2014) ", "Teams">>

\* C9: the Action items table starts with its two fixed header rows, then
\* has one row "| {action} | {owner} |  | Open |" per action item, in the
\* order of the next-steps lines; the fallback row is there iff there is no
\* action item, and is then the only data row.
C9_ActionTable ==
    markdown # None =>
        LET items == parsed[1].action_items
            bucket == sections["next steps"]
            table == ActionTable
            kept == WithActionText(bucket)
            rows == SubSeq(table, 3, Len(table))
            fallback == <<"| No action items recorded | - | - | - |">>
        IN  /\ Len(table) >= 3
            /\ table[1] = <<"| Action | Owner | Due | Status |">>
            /\ table[2] = <<"|--------|-------|-----|--------|">>
            /\ items # <<>> =>
                  /\ Len(rows) = Len(items)
                  /\ Len(rows) = Cardinality(kept)
                  /\ \A i \in DOMAIN rows :
                        /\ rows[i] = <<"| ">> \o items[i][2] \o <<" | ">>
                                     \o items[i][1] \o <<" |  | Open |">>
                        /\ items[i] = ExpectedItem(bucket[Nth(kept, i)])
            /\ items = <<>> => rows = <<fallback>>
            /\ (\E i \in DOMAIN rows : rows[i] = fallback) <=> items = <<>>

\* Two action items, one with an owner and one without, are in the table.
C9_Witness ==
    /\ markdown # None
    /\ Len(ActionTable) = 4
    /\ Len(sections["next steps"]) > 2
    /\ ActionTable[3] = <<"| ", "x", " | ", "TBD", " |  | Open |">>
    /\ ActionTable[4] = <<"| ", "x", ".", " ", "x", "?", " | ", "y", " |  | Open |">>

\* C10: the Discussion notes have one "- Quick recap: ..." bullet iff there
\* are recap sentences (the sentence itself when there is one, all of them
\* joined with "; " when there are more), then one bullet "- {title}: {body}"
\* per topic in order, the fixed fallback text standing for an empty body; the
\* bullet "- Discussion notes pending." is there iff there is neither sentence
\* nor topic.  So there are max(1, (1 if sentences else 0) + topics) bullets,
\* and the Agenda has one bullet per topic title in the same order.
C10_DiscussionNotes ==
    markdown # None =>
        LET R == parsed[1].quick_recap
            T == parsed[1].summary_topics
            r == IF R = <<>> THEN 0 ELSE 1
            pending == <<"- Discussion notes pending.">>
            notes == Notes
            agenda == Agenda
        IN  /\ Len(notes) = (IF r + Len(T) = 0 THEN 1 ELSE r + Len(T))
            /\ Len(R) = 1 => notes[1] = <<"- Quick recap: ">> \o R[1]
            /\ Len(R) > 1 =>
                  notes[1] = <<"- Quick recap: ">> \o Join(R, <<"; ">>)
            /\ Cardinality({i \in DOMAIN notes :
                               notes[i][1] = "- Quick recap: "}) = r
            /\ \A i \in DOMAIN T :
                  notes[r + i]
                    = <<"- ">> \o T[i][1] \o <<": ">>
                      \o (IF T[i][2] = <<>>
                          THEN <<"Discussion captured in Zoom summary.">>
                          ELSE T[i][2])
            /\ (\E i \in DOMAIN notes : notes[i] = pending)
                  <=> (R = <<>> /\ T = <<>>)
            /\ T # <<>> =>
                  /\ Len(agenda) = Len(T)
                  /\ \A i \in DOMAIN T : agenda[i] = <<"- ">> \o T[i][1]

\* Several recap sentences, a topic with a body and a topic without.
C10_Witness ==
    /\ markdown # None
    /\ Len(parsed[1].quick_recap) = 2
    /\ Len(parsed[1].summary_topics) = 2
    /\ parsed[1].summary_topics[1][2] # <<>>
    /\ parsed[1].summary_topics[2][2] = <<>>
    /\ Len(Notes) = 3

=============================================================================
